---- MODULE Spec2Model ----
(***************************************************************************)
(* Ravens -> GR00T dataset conversion (convert_to_groot_format.py), the    *)
(* consistency validation of its output (validate_conversion.py), the data *)
(* generation driver (generate_synthetic_data.py) and the example workflow *)
(* (example_workflow.py).                                                  *)
(*                                                                         *)
(* Python values are represented as follows.                               *)
(*   atom      [t |-> "num" | "str" | "bool", v |-> n]  one scalar element *)
(*   PyValue   [kind |-> k, items |-> <<atom, ...>>]                       *)
(*             kind is the Python type of the value; a scalar has exactly  *)
(*             one item, a list / ndarray has its elements as items, and   *)
(*             "ndarray0d" is an ndarray of zero dimensions (one item, no  *)
(*             length)                                                     *)
(*   info[i]   [isdict |-> whether it is a dict,                           *)
(*              entries |-> <<[key, value |-> PyValue], ...>>] in the      *)
(*             iteration order of the dict                                 *)
(*   episode   [has |-> set of modalities loaded, action, reward, info,    *)
(*              color]  (the dict load_ravens_episode returns; the field   *)
(*             of a modality that is not in has is empty)                  *)
(* A file stem of the action directory is the sequence of its '-'-separated*)
(* fields, each field given by its integer value.                          *)
(***************************************************************************)
EXTENDS Integers, Sequences, FiniteSets, TLC

\* ---------------------------------------------------------------- bounds
MaxFiles == 3
MaxId == 2
MaxLen == 2
MaxReturnCode == 2

\* ------------------------------------------------------ program constants
InfoMaxLen == 10

VARIABLES
    ravens_data_dir,    \* the known task names occurring in the source path
    action_dir_exists,  \* whether <ravens_data_dir>/action exists
    action_files,       \* the stems of the files action/*.pkl
    store,              \* episode id -> what load_ravens_episode finds
    pc,                 \* position in convert_dataset / validation
    task_name,          \* local of convert_dataset
    episode_ids,        \* local of convert_dataset
    cursor,             \* 1-based position of the for loop in episode_ids
    episode_data,       \* local of convert_dataset: the loaded episode
    global_index,       \* local of convert_dataset
    meta,               \* output meta/ : file name -> content
    meta_calls,         \* number of create_metadata_files invocations
    table_log,          \* every to_parquet call, in order:
                        \*   [episode_id, pos, file, rows], pos the cursor
    videos,             \* output videos/chunk-000 : names of the mp4 files
    video_result,       \* what the last create_video_from_frames returned
    video_failed,       \* loop positions whose clip encoding did not succeed
    ret,                \* return value of convert_dataset ("none" before)
    consistent,         \* result of validate_episode_consistency
    parquet_rows,       \* what a direct create_parquet_data call returned
    \* ---- generate_synthetic_data.py
    dataset_dir_exists, \* whether ./dataset_for_VLA exists in the project root
    assets_path_exists, \* whether args.assets_root exists
    args_task,          \* args.task
    gen_pc,             \* position in main / generate_all_tasks
    cwd,                \* the working directory of the process
    loop_task,          \* 1-based position of generate_all_tasks in tasks
    train_success,      \* local of main / generate_all_tasks
    test_success,       \* local of main / generate_all_tasks
    results,            \* local of generate_all_tasks: task -> success
    gen_exception,      \* the exception that left main ("none" if none)
    gen_exit,           \* exit status of the script (-1 while running)
    \* ---- example_workflow.py
    wf_pc,              \* position in main
    wf_step,            \* number of run_command calls made
    wf_log,             \* the calls made, in order: [cmd, returncode, ...]
    wf_exit,            \* return value of main (-1 while running)
    \* ---- episode files by name
    named_files,        \* the stems of action/*.pkl, character by character
    loaded              \* the load_ravens_episode calls made, in order:
                        \*   [episode_id, found, file]

vars == <<ravens_data_dir, action_dir_exists, action_files, store, pc,
          task_name, episode_ids, cursor, episode_data, global_index, meta,
          meta_calls, table_log, videos, video_result, video_failed, ret,
          consistent, parquet_rows,
          dataset_dir_exists, assets_path_exists, args_task, gen_pc, cwd,
          loop_task, train_success, test_success, results, gen_exception,
          gen_exit, wf_pc, wf_step, wf_log, wf_exit, named_files, loaded>>

\* the state of the conversion and of its validation
conversionVars ==
    <<ravens_data_dir, action_dir_exists, action_files, store, pc,
      task_name, episode_ids, cursor, episode_data, global_index, meta,
      meta_calls, table_log, videos, video_result, video_failed, ret,
      consistent, parquet_rows>>

\* the state of the generation driver
generationVars ==
    <<dataset_dir_exists, assets_path_exists, args_task, gen_pc, cwd,
      loop_task, train_success, test_success, results, gen_exception,
      gen_exit>>

\* the state of the example workflow
workflowVars == <<wf_pc, wf_step, wf_log, wf_exit>>

\* what convert_dataset and the validation of its output leave alone
outside_conversion ==
    <<parquet_rows, generationVars, workflowVars, named_files, loaded>>

\* the state of the loading of episode files by name
loaderVars == <<named_files, loaded>>

\* no file name considered, no load made
LoaderIdle ==
    /\ named_files = {}
    /\ loaded = <<>>

\* the generation driver and the workflow before they are started
GenerationIdle ==
    /\ dataset_dir_exists = TRUE
    /\ assets_path_exists = TRUE
    /\ args_task = "all"
    /\ gen_pc = "idle"
    /\ cwd = "root"
    /\ loop_task = 0
    /\ train_success = FALSE
    /\ test_success = FALSE
    /\ results = <<>>
    /\ gen_exception = "none"
    /\ gen_exit = -1

WorkflowIdle ==
    /\ wf_pc = "idle"
    /\ wf_step = 0
    /\ wf_log = <<>>
    /\ wf_exit = -1

\* ------------------------------------------------------------- utilities
RECURSIVE SumSeq(_)
SumSeq(s) == IF s = <<>> THEN 0 ELSE Head(s) + SumSeq(Tail(s))

RECURSIVE Insert(_, _)
Insert(x, s) ==
    IF s = <<>> THEN <<x>>
    ELSE IF x <= Head(s) THEN <<x>> \o s
    ELSE <<Head(s)>> \o Insert(x, Tail(s))

RECURSIVE SortAscending(_)
SortAscending(s) ==
    IF s = <<>> THEN <<>> ELSE Insert(Head(s), SortAscending(Tail(s)))

Range(s) == {s[i] : i \in 1..Len(s)}

Num(n) == [t |-> "num", v |-> n]

\* -------------------------------------------------- task table (l.47-58)
TaskKeys ==
    << "block-insertion", "place-red-in-green", "towers-of-hanoi",
       "stack-block-pyramid", "align-box-corner", "assembling-kits",
       "manipulating-rope", "packing-boxes", "palletizing-boxes",
       "sweeping-piles" >>

TaskDescriptions ==
    << "Insert the L-shaped block into the fixture",
       "Place the red block in the green zone",
       "Move blocks to solve the towers of hanoi puzzle",
       "Stack blocks to form a pyramid",
       "Align the box with the corner",
       "Assemble the kit by placing objects correctly",
       "Manipulate the rope to achieve the goal",
       "Pack boxes in the container",
       "Palletize boxes in the correct order",
       "Sweep the pile of objects" >>

\* a task index counted from 1
TaskIndexOf_FromOne(name) ==
    IF name \in Range(TaskKeys)
    THEN CHOOSE i \in 1..Len(TaskKeys) : TaskKeys[i] = name
    ELSE 0

\* list(task_descriptions.keys()).index(name) if name in ... else 0
TaskIndexOf(name) ==
    IF name \in Range(TaskKeys)
    THEN (CHOOSE i \in 1..Len(TaskKeys) : TaskKeys[i] = name) - 1
    ELSE 0

\* extract_task_name: the first of four names found in the path
extract_task_name(data_dir) ==
    IF "block-insertion" \in data_dir THEN "block-insertion"
    ELSE IF "place-red-in-green" \in data_dir THEN "place-red-in-green"
    ELSE IF "towers-of-hanoi" \in data_dir THEN "towers-of-hanoi"
    ELSE IF "stack-block-pyramid" \in data_dir THEN "stack-block-pyramid"
    ELSE "unknown-task"

\* ------------------------------------------------------------ episodes
Modalities == {"color", "depth", "action", "reward", "info"}

EmptyEpisode ==
    [has |-> {}, action |-> <<>>, reward |-> <<>>, info |-> <<>>,
     color |-> "none"]

\* episode_data.get('action', []) and episode_data.get('reward', [])
GetAction(ed) == IF "action" \in ed.has THEN ed.action ELSE <<>>
GetReward(ed) == IF "reward" \in ed.has THEN ed.reward ELSE <<>>

\* load_ravens_episode(episode_id)
load_ravens_episode(episode_id) == store[episode_id]

\* isinstance(value, (int, float)): bool is a subclass of int and
\* numpy.float64 one of float; the other numpy scalar types are neither
IsNumber(value) == value.kind \in {"int", "float", "bool", "np.float64"}

\* isinstance(value, (list, np.ndarray))
IsListOrArray(value) == value.kind \in {"list", "ndarray", "ndarray0d"}

\* whether len(value) returns: len() of a 0-d ndarray raises TypeError
HasLen(value) == value.kind # "ndarray0d"

\* what one info value adds to state_components (l.151-154)
InfoContribution(value) ==
    IF IsNumber(value) THEN <<value.items[1]>>
    ELSE IF IsListOrArray(value) /\ Len(value.items) <= InfoMaxLen
         THEN value.items
    ELSE <<>>

RECURSIVE InfoComponents(_)
InfoComponents(entries) ==
    IF entries = <<>> THEN <<>>
    ELSE InfoContribution(Head(entries).value)
             \o InfoComponents(Tail(entries))

\* a state vector with the reward placed first
StateComponents_RewardFirst(ed, step) ==
    LET fromAction ==
            IF "action" \in ed.has /\ step < Len(ed.action)
            THEN IF IsListOrArray(ed.action[step + 1])
                 THEN ed.action[step + 1].items
                 ELSE <<ed.action[step + 1].items[1]>>
            ELSE <<>>
        fromReward ==
            IF "reward" \in ed.has /\ step < Len(ed.reward)
            THEN <<ed.reward[step + 1]>>
            ELSE <<>>
        fromInfo ==
            IF "info" \in ed.has /\ step < Len(ed.info)
            THEN IF ed.info[step + 1].isdict
                 THEN InfoComponents(ed.info[step + 1].entries)
                 ELSE <<>>
            ELSE <<>>
    IN  fromReward \o fromAction \o fromInfo

\* state_components of one step (l.129-156); step is 0-based
StateComponents(ed, step) ==
    LET fromAction ==
            IF "action" \in ed.has /\ step < Len(ed.action)
            THEN IF IsListOrArray(ed.action[step + 1])
                 THEN ed.action[step + 1].items
                 ELSE <<ed.action[step + 1].items[1]>>
            ELSE <<>>
        fromReward ==
            IF "reward" \in ed.has /\ step < Len(ed.reward)
            THEN <<ed.reward[step + 1]>>
            ELSE <<>>
        fromInfo ==
            IF "info" \in ed.has /\ step < Len(ed.info)
            THEN IF ed.info[step + 1].isdict
                 THEN InfoComponents(ed.info[step + 1].entries)
                 ELSE <<>>
            ELSE <<>>
    IN  fromAction \o fromReward \o fromInfo

\* row['action'] (l.158-166)
RowAction(ed, step) ==
    IF "action" \in ed.has /\ step < Len(ed.action)
    THEN IF IsListOrArray(ed.action[step + 1])
         THEN ed.action[step + 1].items
         ELSE <<ed.action[step + 1].items[1]>>
    ELSE <<Num(0)>>

\* a terminal test that is off by one
NextDone_OffByOne(step, episode_length) == ~(step < episode_length - 2)

\* the look-ahead fields (l.181-188)
NextDone(step, episode_length) == ~(step < episode_length - 1)

\* a look-ahead that reads the reward of the step itself
NextReward_Current(ed, step, episode_length) ==
    IF step < episode_length - 1
    THEN IF step < Len(GetReward(ed))
         THEN GetReward(ed)[step + 1]
         ELSE Num(0)
    ELSE Num(0)

\* next.reward (l.181-188)
NextReward(ed, step, episode_length) ==
    IF step < episode_length - 1
    THEN IF step + 1 < Len(GetReward(ed))
         THEN GetReward(ed)[step + 2]
         ELSE Num(0)
    ELSE Num(0)

\* a row loop that stops one step early
EpisodeLength_OneShort(ed) ==
    IF GetAction(ed) = <<>> THEN 0 ELSE Len(GetAction(ed)) - 1

\* number of iterations of the row loop (l.124-126)
EpisodeLength(ed) == Len(GetAction(ed))

MakeRow(ed, episode_id, name, offset, step, episode_length) ==
    [ state |-> StateComponents(ed, step),
      action |-> RowAction(ed, step),
      timestamp |-> [num |-> step, den |-> 10],
      task_description |-> TaskIndexOf(name),
      task_index |-> TaskIndexOf(name),
      validity |-> 1,
      episode_index |-> episode_id,
      index |-> offset + step,
      next_reward |-> NextReward(ed, step, episode_length),
      next_done |-> NextDone(step, episode_length) ]

create_parquet_data(ed, episode_id, name, offset) ==
    [ i \in 1..EpisodeLength(ed) |->
        MakeRow(ed, episode_id, name, offset, i - 1, EpisodeLength(ed)) ]

\* whether building the row of a step raises: len(value) at l.153 is
\* reached for an info value that is a list or ndarray and not an int or
\* float, and raises when the value has no length
RowRaises(ed, step) ==
    /\ "info" \in ed.has
    /\ step < Len(ed.info)
    /\ ed.info[step + 1].isdict
    /\ \E j \in 1..Len(ed.info[step + 1].entries) :
          LET value == ed.info[step + 1].entries[j].value
          IN  ~IsNumber(value) /\ IsListOrArray(value) /\ ~HasLen(value)

\* a row builder that indexes the reward array without the guard
CreateParquetDataRaises_Unguarded(ed) ==
    \E step \in 0..(EpisodeLength(ed) - 1) :
        RowRaises(ed, step) \/ ~(step < Len(GetReward(ed)))

\* whether create_parquet_data raises instead of returning (l.126-190)
CreateParquetDataRaises(ed) ==
    \E step \in 0..(EpisodeLength(ed) - 1) : RowRaises(ed, step)


\* an index that advances by one per episode instead of one per row
AdvanceIndex_PerEpisode(offset, rows) == offset + 1

\* global_index += len(parquet_data) (l.287)
AdvanceIndex(offset, rows) == offset + Len(rows)

\* ------------------------------------------------- create_metadata_files
\* tasks.jsonl (l.295-305)
TasksData ==
    [ i \in 1..Len(TaskKeys) |->
        [task_index |-> i - 1, task |-> TaskDescriptions[i]] ]

\* a catalog length taken from the reward array
CatalogLength_FromReward(episode_id) ==
    Len(GetReward(load_ravens_episode(episode_id)))

\* the length the catalog declares: a fresh load of the episode (l.311-312)
CatalogLength(episode_id) == Len(GetAction(load_ravens_episode(episode_id)))

\* episodes.jsonl (l.307-324)
EpisodesData(name, ids) ==
    [ i \in 1..Len(ids) |->
        [episode_index |-> ids[i],
         tasks |-> <<TaskIndexOf(name)>>,
         length |-> CatalogLength(ids[i])] ]

\* modality.json (create_modality_config, l.194-234)
create_modality_config(name) ==
    [ state |->
        [action_state |-> [start |-> 0, end |-> 7, dtype |-> "float32"],
         reward_state |-> [start |-> 7, end |-> 8, dtype |-> "float32"],
         info_state |-> [start |-> 8, end |-> 20, dtype |-> "float32"]],
      action |->
        [robot_action |->
            [start |-> 0, end |-> 7, dtype |-> "float32",
             absolute |-> FALSE]],
      video |->
        [ego_view |-> [original_key |-> "observation.images.ego_view"]],
      annotation |-> {"task_description", "validity"} ]

\* an episode count that counts each id once
TotalEpisodes_Distinct(ids) == Cardinality(Range(ids))

\* a frame total that counts each id once
TotalFrames_Distinct(ids) ==
    LET once == SortAscending(
                    CHOOSE f \in [1..Cardinality(Range(ids)) -> Range(ids)] :
                        Range(f) = Range(ids))
    IN  SumSeq([ i \in 1..Len(once) |->
                    Len(GetAction(load_ravens_episode(once[i]))) ])

\* info.json total_episodes and total_frames (l.336-337)
TotalEpisodes(ids) == Len(ids)

TotalFrames(ids) ==
    SumSeq([ i \in 1..Len(ids) |->
                Len(GetAction(load_ravens_episode(ids[i]))) ])

InfoData(name, ids) ==
    [ name |-> <<"ravens_", name>>,
      description |->
          <<"PyBullet Ravens ", name, " task converted to Isaac GR00T format">>,
      version |-> "1.0.0",
      total_episodes |-> TotalEpisodes(ids),
      total_frames |-> TotalFrames(ids) ]

MetaFiles(name, ids) ==
    [ f \in {"tasks.jsonl", "episodes.jsonl", "modality.json", "info.json"}
        |-> CASE f = "tasks.jsonl" -> TasksData
              [] f = "episodes.jsonl" -> EpisodesData(name, ids)
              [] f = "modality.json" -> create_modality_config(name)
              [] f = "info.json" -> InfoData(name, ids) ]

NoFiles == [f \in {} |-> {}]

\* ------------------------------------------------------ episode discovery
\* '-' in filename, int(filename.split('-')[1]) (l.253-258); the fields of
\* the stems considered are decimal numbers, so that int() returns
HasDash(stem) == Len(stem) > 1
ParseEpisodeId(stem) == stem[2]

RECURSIVE ParsedIds(_)
ParsedIds(files) ==
    IF files = <<>> THEN <<>>
    ELSE IF HasDash(Head(files))
         THEN <<ParseEpisodeId(Head(files))>> \o ParsedIds(Tail(files))
         ELSE ParsedIds(Tail(files))

\* a discovery that keeps the order of the glob
DiscoverEpisodeIds_Unsorted(files) == ParsedIds(files)

\* l.250-260: files is the glob result, in the order the glob lists it
DiscoverEpisodeIds(files) == SortAscending(ParsedIds(files))

\* the orders in which a glob may list the files of a directory
GlobOrders(dir) ==
    { f \in [1..Cardinality(dir) -> dir] : Range(f) = dir }

\* ---------------------------------------------------------- video encoder
\* an encoder whose exceptions reach the caller
VideoOutcomes_Uncaught(color_frames) ==
    { [result |-> TRUE, file |-> TRUE, caught |-> TRUE],
      [result |-> FALSE, file |-> FALSE, caught |-> FALSE],
      [result |-> FALSE, file |-> TRUE, caught |-> FALSE] }

\* create_video_from_frames (l.95-116): what a call can do.  A malformed
\* frame tensor raises before the writer is opened (no file); an encoder
\* I/O error raises while the file is being written, and may leave the file
\* behind.  Every exception is caught and turned into the result False.
\* caught: the exception does not leave the function (except Exception,
\* l.114-116).
VideoOutcomes(color_frames) ==
    { [result |-> TRUE, file |-> TRUE, caught |-> TRUE],
      [result |-> FALSE, file |-> FALSE, caught |-> TRUE],
      [result |-> FALSE, file |-> TRUE, caught |-> TRUE] }

\* ------------------------------------------------------- output file names
RECURSIVE Digits(_)
Digits(n) == IF n < 10 THEN <<n>> ELSE Digits(n \div 10) \o <<n % 10>>

\* format(n, "0<width>d"): the decimal digits, zero-filled to width
ZeroPad(n, width) ==
    LET d == Digits(n)
    IN  [i \in 1..(IF width > Len(d) THEN width - Len(d) ELSE 0) |-> 0] \o d

\* f"episode_{episode_id:06d}.mp4" (l.277)
VideoFileName(episode_id) == <<"episode_", ZeroPad(episode_id, 6), ".mp4">>

\* f"episode_{episode_id:06d}.parquet" (l.284)
TableFileName(episode_id) ==
    <<"episode_", ZeroPad(episode_id, 6), ".parquet">>

\* ------------------------------------------------------------- the inputs
EpisodeIdSet == 0..MaxId

\* <<9>> is a stem without '-'; <<p, id>> is the stem "p-id".  Two stems
\* give the id 0, so that an id can be discovered twice.
FileStems ==
    {<<9>>, <<1, 0>>} \cup {<<0, id>> : id \in EpisodeIdSet}

Directories == {d \in SUBSET FileStems : Cardinality(d) <= MaxFiles}

ActionArray(n) ==
    [k \in 1..n |-> [kind |-> "list", items |-> <<Num(k), Num(k + 1)>>]]

RewardArray(n) == [k \in 1..n |-> Num(10 * k)]

\* an episode as the loader returns it: al < 0 means no action file
MakeEpisode(al, hasReward, color) ==
    [ has |-> (IF al >= 0 THEN {"action"} ELSE {})
              \cup (IF hasReward THEN {"reward"} ELSE {})
              \cup (IF color # "none" THEN {"color"} ELSE {}),
      action |-> IF al >= 0 THEN ActionArray(al) ELSE <<>>,
      reward |-> IF hasReward THEN RewardArray(IF al >= 0 THEN al ELSE 1)
                 ELSE <<>>,
      info |-> <<>>,
      color |-> color ]

\* the loaded episodes: with no other modality than an action array of any
\* length (or nothing at all), or with reward and color beside an action
\* array of full length, or with color alone
Episodes ==
    { MakeEpisode(al, FALSE, "none") : al \in -1..MaxLen }
    \cup { MakeEpisode(MaxLen, TRUE, "frames"),
            MakeEpisode(-1, FALSE, "frames") }

DataDirs == { {}, {"towers-of-hanoi", "stack-block-pyramid"} }

\* ------------------------------------------------------------------ Init
Init ==
    /\ ravens_data_dir \in DataDirs
    /\ action_dir_exists \in BOOLEAN
    /\ action_files \in (IF action_dir_exists THEN Directories ELSE {{}})
    /\ \E found \in [{ParseEpisodeId(f) : f \in {g \in action_files :
                                                    HasDash(g)}}
                        -> Episodes] :
         store = [ id \in EpisodeIdSet |->
                     IF id \in DOMAIN found THEN found[id]
                     ELSE EmptyEpisode ]
    /\ pc = "start"
    /\ task_name = "none"
    /\ episode_ids = <<>>
    /\ cursor = 0
    /\ episode_data = EmptyEpisode
    /\ global_index = 0
    /\ meta = NoFiles
    /\ meta_calls = 0
    /\ table_log = <<>>
    /\ videos = {}
    /\ video_result = "none"
    /\ video_failed = {}
    /\ ret = "none"
    /\ consistent = "none"
    /\ parquet_rows = <<>>
    /\ GenerationIdle
    /\ WorkflowIdle
    /\ LoaderIdle

\* ------------------------------------------------------- convert_dataset
\* l.241-248: no action directory
NoActionDir ==
    /\ pc = "start"
    /\ ~action_dir_exists
    /\ task_name' = extract_task_name(ravens_data_dir)
    /\ ret' = FALSE
    /\ pc' = "done"
    /\ UNCHANGED <<ravens_data_dir, action_dir_exists, action_files, store,
                   episode_ids, cursor, episode_data, global_index, meta,
                   meta_calls, table_log, videos, video_result,
                   consistent>>
    /\ UNCHANGED video_failed
    /\ UNCHANGED outside_conversion

\* l.241-261: discovery of the episode ids
FindEpisodes ==
    /\ pc = "start"
    /\ action_dir_exists
    /\ task_name' = extract_task_name(ravens_data_dir)
    /\ \E episode_files \in GlobOrders(action_files) :
         episode_ids' = DiscoverEpisodeIds(episode_files)
    /\ pc' = "metadata"
    /\ UNCHANGED <<ravens_data_dir, action_dir_exists, action_files, store,
                   cursor, episode_data, global_index, meta, meta_calls,
                   table_log, videos, video_result, ret,
                   consistent>>
    /\ UNCHANGED video_failed
    /\ UNCHANGED outside_conversion

\* l.263-267: create_metadata_files, then the loop is entered
CreateMetadataFiles ==
    /\ pc = "metadata"
    /\ meta' = MetaFiles(task_name, episode_ids)
    /\ meta_calls' = meta_calls + 1
    /\ global_index' = 0
    /\ cursor' = 1
    /\ pc' = "loop"
    /\ UNCHANGED <<ravens_data_dir, action_dir_exists, action_files, store,
                   task_name, episode_ids, episode_data, table_log,
                   videos, video_result, ret, consistent>>
    /\ UNCHANGED video_failed
    /\ UNCHANGED outside_conversion

\* l.268-273: an episode for which no modality file is found is skipped
SkipEpisode ==
    /\ pc = "loop"
    /\ cursor <= Len(episode_ids)
    /\ load_ravens_episode(episode_ids[cursor]).has = {}
    /\ episode_data' = load_ravens_episode(episode_ids[cursor])
    /\ cursor' = cursor + 1
    /\ UNCHANGED <<ravens_data_dir, action_dir_exists, action_files, store,
                   pc, task_name, episode_ids, global_index, meta,
                   meta_calls, table_log, videos, video_result,
                   ret, consistent>>
    /\ UNCHANGED video_failed
    /\ UNCHANGED outside_conversion

\* l.268-271: the episode is loaded
LoadEpisode ==
    /\ pc = "loop"
    /\ cursor <= Len(episode_ids)
    /\ load_ravens_episode(episode_ids[cursor]).has # {}
    /\ episode_data' = load_ravens_episode(episode_ids[cursor])
    /\ pc' = "video"
    /\ UNCHANGED <<ravens_data_dir, action_dir_exists, action_files, store,
                   task_name, episode_ids, cursor, global_index, meta,
                   meta_calls, table_log, videos, video_result,
                   ret, consistent>>
    /\ UNCHANGED video_failed
    /\ UNCHANGED outside_conversion

\* l.275-278: the clip of an episode that has color frames
CreateVideo ==
    /\ pc = "video"
    /\ "color" \in episode_data.has
    /\ \E o \in VideoOutcomes(episode_data.color) :
         /\ videos' = IF o.file
                      THEN videos \cup {VideoFileName(episode_ids[cursor])}
                      ELSE videos
         /\ video_result' = o.result
         /\ video_failed' = IF o.result THEN video_failed
                            ELSE video_failed \cup {cursor}
         /\ pc' = IF o.caught THEN "parquet" ELSE "raised"
    /\ UNCHANGED outside_conversion
    /\ UNCHANGED <<ravens_data_dir, action_dir_exists, action_files, store,
                   task_name, episode_ids, cursor, episode_data,
                   global_index, meta, meta_calls, table_log, ret,
                   consistent>>

\* l.276: no color modality, no clip
NoVideo ==
    /\ pc = "video"
    /\ "color" \notin episode_data.has
    /\ pc' = "parquet"
    /\ UNCHANGED <<ravens_data_dir, action_dir_exists, action_files, store,
                   task_name, episode_ids, cursor, episode_data,
                   global_index, meta, meta_calls, table_log,
                   videos, video_result, ret, consistent>>
    /\ UNCHANGED video_failed
    /\ UNCHANGED outside_conversion

\* l.280-287: the rows are built, saved, and the index advanced
SaveParquet ==
    /\ pc = "parquet"
    /\ LET id == episode_ids[cursor]
           parquet_data ==
               create_parquet_data(episode_data, id, task_name,
                                   global_index)
       IN  /\ table_log' = Append(table_log,
                                  [episode_id |-> id, pos |-> cursor,
                                   file |-> TableFileName(id),
                                   rows |-> parquet_data])
           /\ global_index' = AdvanceIndex(global_index, parquet_data)
    /\ cursor' = cursor + 1
    /\ pc' = "loop"
    /\ UNCHANGED <<ravens_data_dir, action_dir_exists, action_files, store,
                   task_name, episode_ids, episode_data, meta, meta_calls,
                   videos, video_result, ret, consistent>>
    /\ UNCHANGED video_failed
    /\ UNCHANGED outside_conversion

\* l.289-290
Finish ==
    /\ pc = "loop"
    /\ cursor > Len(episode_ids)
    /\ ret' = TRUE
    /\ pc' = "done"
    /\ UNCHANGED <<ravens_data_dir, action_dir_exists, action_files, store,
                   task_name, episode_ids, cursor, episode_data,
                   global_index, meta, meta_calls, table_log,
                   videos, video_result, consistent>>
    /\ UNCHANGED video_failed
    /\ UNCHANGED outside_conversion

\* data/chunk-000 after the calls of table_log: episode_<id>.parquet holds
\* what the last to_parquet call for that id wrote (l.284-285)
tables ==
    [ id \in {table_log[i].episode_id : i \in 1..Len(table_log)} |->
        table_log[CHOOSE i \in 1..Len(table_log) :
                    /\ table_log[i].episode_id = id
                    /\ \A j \in (i + 1)..Len(table_log) :
                          table_log[j].episode_id # id].rows ]

\* ------------------------------------------ validate_episode_consistency
EpisodeConsistency(episodes, parquet_files, video_files) ==
    IF Len(episodes) # Cardinality(parquet_files) THEN FALSE
    ELSE IF Len(episodes) # Cardinality(video_files) THEN FALSE
    ELSE TRUE

\* validate_conversion.py run on the output of a conversion
ValidateEpisodeConsistency ==
    /\ pc = "done"
    /\ "episodes.jsonl" \in DOMAIN meta
    /\ consistent' = EpisodeConsistency(meta["episodes.jsonl"],
                                        DOMAIN tables, videos)
    /\ pc' = "validated"
    /\ UNCHANGED <<ravens_data_dir, action_dir_exists, action_files, store,
                   task_name, episode_ids, cursor, episode_data,
                   global_index, meta, meta_calls, table_log,
                   videos, video_result, ret>>
    /\ UNCHANGED video_failed
    /\ UNCHANGED outside_conversion

Next ==
    \/ NoActionDir
    \/ FindEpisodes
    \/ CreateMetadataFiles
    \/ SkipEpisode
    \/ LoadEpisode
    \/ CreateVideo
    \/ NoVideo
    \/ SaveParquet
    \/ Finish
    \/ ValidateEpisodeConsistency

Spec == Init /\ [][Next]_vars


\* ======================================================================
\* create_parquet_data called on one episode record
\* ======================================================================
Scalar(kind, atom) == [kind |-> kind, items |-> <<atom>>]
Str(n) == [t |-> "str", v |-> n]
Bool(n) == [t |-> "bool", v |-> n]
NumItems(kind, n) == [kind |-> kind, items |-> [k \in 1..n |-> Num(200 + k)]]
Dict(entries) == [isdict |-> TRUE, entries |-> entries]
Key(key, value) == [key |-> key, value |-> value]

\* the info[i] values considered: dicts of one key for each type of value
\* told apart at l.151-154, a dict of several keys, an empty dict, and a
\* value that is not a dict
InfoEntries ==
    << Dict(<<Key("x", Scalar("float", Num(101)))>>),
       Dict(<<Key("n", Scalar("int", Num(102)))>>),
       Dict(<<Key("flag", Scalar("bool", Bool(1)))>>),
       Dict(<<Key("f32", Scalar("np.float32", Num(103)))>>),
       Dict(<<Key("f64", Scalar("np.float64", Num(104)))>>),
       Dict(<<Key("name", Scalar("str", Str(1)))>>),
       Dict(<<Key("pose", NumItems("list", 3))>>),
       Dict(<<Key("ten", NumItems("ndarray", InfoMaxLen))>>),
       Dict(<<Key("big", NumItems("list", InfoMaxLen + 1))>>),
       Dict(<<Key("names",
                  [kind |-> "list", items |-> <<Str(2), Str(3)>>])>>),
       Dict(<<Key("pair", NumItems("tuple", 2))>>),
       Dict(<<Key("unsized", Scalar("ndarray0d", Num(105)))>>),
       Dict(<<Key("a", Scalar("float", Num(106))),
              Key("b", Scalar("str", Str(4))),
              Key("c", NumItems("ndarray", 2)),
              Key("d", Scalar("int", Num(107)))>>),
       Dict(<<>>),
       [isdict |-> FALSE, entries |-> <<>>] >>

\* an info array of n steps, the entries taken in turn from InfoEntries
\* starting at the entry first
InfoArray(n, first) ==
    [k \in 1..n |-> InfoEntries[((first + k - 2) % Len(InfoEntries)) + 1]]

\* an action array of n scalars
ScalarActionArray(n) == [k \in 1..n |-> Scalar("float", Num(k))]

\* an episode record as create_parquet_data receives it: reward is the
\* length of the reward array and info = <<length, first entry>> describes
\* the info array; a length below 0 means that the modality is absent
MakeRecord(action, reward, info, extra) ==
    [ has |-> {"action"}
              \cup (IF reward < 0 THEN {} ELSE {"reward"})
              \cup (IF info[1] < 0 THEN {} ELSE {"info"})
              \cup extra,
      action |-> action,
      reward |-> IF reward < 0 THEN <<>> ELSE RewardArray(reward),
      info |-> IF info[1] < 0 THEN <<>> ELSE InfoArray(info[1], info[2]),
      color |-> IF "color" \in extra THEN "frames" ELSE "none" ]

\* the records: an action array of 0..MaxLen steps (of lists or of
\* scalars), the reward array absent or of any length up to one more than
\* the action array, the info array absent or of any length up to that of
\* the action array, with or without color and depth
Records ==
    { MakeRecord(action, reward, info, extra) :
        action \in UNION { {ActionArray(n), ScalarActionArray(n)} :
                              n \in 0..MaxLen },
        reward \in -1..(MaxLen + 1),
        info \in (-1..MaxLen) \X (1..Len(InfoEntries)),
        extra \in SUBSET {"color", "depth"} }

RowTaskNames == {"block-insertion", "sweeping-piles", "unknown-task"}

InitRows ==
    /\ ravens_data_dir = {}
    /\ action_dir_exists = FALSE
    /\ action_files = {}
    /\ store = [id \in EpisodeIdSet |-> EmptyEpisode]
    /\ pc = "build"
    /\ task_name \in RowTaskNames
    /\ episode_ids \in {<<id>> : id \in {0, MaxId}}
    /\ cursor = 1
    /\ episode_data \in
          {r \in Records : /\ Len(r.reward) <= Len(r.action) + 1
                           /\ Len(r.info) <= Len(r.action)}
    /\ global_index \in {0, MaxLen}
    /\ meta = NoFiles
    /\ meta_calls = 0
    /\ table_log = <<>>
    /\ videos = {}
    /\ video_result = "none"
    /\ video_failed = {}
    /\ ret = "none"
    /\ consistent = "none"
    /\ parquet_rows = <<>>
    /\ GenerationIdle
    /\ WorkflowIdle
    /\ LoaderIdle

\* create_parquet_data returns the rows (l.118-192)
BuildRows ==
    /\ pc = "build"
    /\ ~CreateParquetDataRaises(episode_data)
    /\ parquet_rows' = create_parquet_data(episode_data, episode_ids[cursor],
                                           task_name, global_index)
    /\ pc' = "built"
    /\ UNCHANGED <<ravens_data_dir, action_dir_exists, action_files, store,
                   task_name, episode_ids, cursor, episode_data,
                   global_index, meta, meta_calls, table_log, videos,
                   video_result, video_failed, ret, consistent>>
    /\ UNCHANGED <<generationVars, workflowVars, loaderVars>>

\* create_parquet_data raises
BuildRowsRaises ==
    /\ pc = "build"
    /\ CreateParquetDataRaises(episode_data)
    /\ pc' = "build_raised"
    /\ UNCHANGED <<ravens_data_dir, action_dir_exists, action_files, store,
                   task_name, episode_ids, cursor, episode_data,
                   global_index, meta, meta_calls, table_log, videos,
                   video_result, video_failed, ret, consistent,
                   parquet_rows>>
    /\ UNCHANGED <<generationVars, workflowVars, loaderVars>>

NextRows ==
    \/ BuildRows
    \/ BuildRowsRaises

SpecRows == InitRows /\ [][NextRows]_vars


\* ======================================================================
\* generate_synthetic_data.py
\* ======================================================================
\* the list tasks of generate_all_tasks (l.98-109)
GenTasks == TaskKeys

\* the names that are local to generate_all_tasks (its parameters and the
\* names it assigns, l.80-148) and the names bound at module level
\* (imports and functions, l.10-15, l.17, l.80, l.150, l.189)
GenerateAllTasksLocals ==
    {"data_base_dir", "assets_root", "train_episodes", "test_episodes",
     "display", "tasks", "results", "task", "task_data_dir",
     "train_success", "test_success"}

ModuleGlobals ==
    {"os", "sys", "argparse", "subprocess", "Path", "List", "Dict", "Any",
     "run_ravens_demo", "generate_all_tasks", "validate_generated_data",
     "main"}

\* whether a name read in generate_all_tasks is bound (no builtin is
\* called mode); reading an unbound name raises NameError
NameResolves(name) == name \in GenerateAllTasksLocals \cup ModuleGlobals

\* what subprocess.run can do (l.61): exit with status 0, exit with
\* another status, run into the timeout, or fail to start
DemoOutcomes == {"ok", "nonzero", "timeout", "oserror"}

\* run_ravens_demo (l.17-78) called in the directory dir: the value it
\* returns and the working directory it leaves.  os.chdir("dataset_for_VLA")
\* raises unless dir is the project root, where that directory exists; the
\* directory is changed back at l.64 only when subprocess.run returned.
run_ravens_demo(dir, outcome) ==
    IF dir # "root"
    THEN [success |-> FALSE, cwd |-> dir]
    ELSE CASE outcome = "ok" -> [success |-> TRUE, cwd |-> dir]
           [] outcome = "nonzero" -> [success |-> FALSE, cwd |-> dir]
           [] outcome = "timeout" ->
                [success |-> FALSE, cwd |-> "dataset_for_VLA"]
           [] outcome = "oserror" ->
                [success |-> FALSE, cwd |-> "dataset_for_VLA"]

\* the values of --task: all, or one task
TaskArguments == {"all"} \cup Range(GenTasks)

InitGen ==
    /\ ravens_data_dir = {}
    /\ action_dir_exists = FALSE
    /\ action_files = {}
    /\ store = [id \in EpisodeIdSet |-> EmptyEpisode]
    /\ pc = "idle"
    /\ task_name = "none"
    /\ episode_ids = <<>>
    /\ cursor = 0
    /\ episode_data = EmptyEpisode
    /\ global_index = 0
    /\ meta = NoFiles
    /\ meta_calls = 0
    /\ table_log = <<>>
    /\ videos = {}
    /\ video_result = "none"
    /\ video_failed = {}
    /\ ret = "none"
    /\ consistent = "none"
    /\ parquet_rows = <<>>
    /\ dataset_dir_exists \in BOOLEAN
    /\ assets_path_exists \in BOOLEAN
    /\ args_task \in TaskArguments
    /\ gen_pc = "main"
    /\ cwd = "root"
    /\ loop_task = 0
    /\ train_success = FALSE
    /\ test_success = FALSE
    /\ results = <<>>
    /\ gen_exception = "none"
    /\ gen_exit = -1
    /\ WorkflowIdle
    /\ LoaderIdle

\* main, l.209-218: a directory is missing
MainMissingDirectory ==
    /\ gen_pc = "main"
    /\ ~dataset_dir_exists \/ ~assets_path_exists
    /\ gen_exit' = 1
    /\ gen_pc' = "exited"
    /\ UNCHANGED <<dataset_dir_exists, assets_path_exists, args_task, cwd,
                   loop_task, train_success, test_success, results,
                   gen_exception>>
    /\ UNCHANGED <<conversionVars, workflowVars, loaderVars>>

\* main, l.220-244 and l.284-286: all tasks or one task; for all tasks
\* generate_all_tasks is entered (l.98-113)
MainDispatch ==
    /\ gen_pc = "main"
    /\ dataset_dir_exists /\ assets_path_exists
    /\ IF args_task = "all"
       THEN /\ results' = <<>>
            /\ loop_task' = 1
            /\ gen_pc' = "task_dir"
       ELSE /\ gen_pc' = "train"
            /\ UNCHANGED <<results, loop_task>>
    /\ UNCHANGED <<dataset_dir_exists, assets_path_exists, args_task, cwd,
                   train_success, test_success, gen_exception, gen_exit>>
    /\ UNCHANGED <<conversionVars, workflowVars, loaderVars>>

\* generate_all_tasks, l.119: task_data_dir is built from task and mode;
\* an exception leaves generate_all_tasks and main, and the interpreter
\* exits with status 1
TaskDataDir ==
    /\ gen_pc = "task_dir"
    /\ IF NameResolves("task") /\ NameResolves("mode")
       THEN /\ gen_pc' = "train"
            /\ UNCHANGED <<gen_exception, gen_exit>>
       ELSE /\ gen_exception' = "NameError"
            /\ gen_exit' = 1
            /\ gen_pc' = "raised"
    /\ UNCHANGED <<dataset_dir_exists, assets_path_exists, args_task, cwd,
                   loop_task, train_success, test_success, results>>
    /\ UNCHANGED <<conversionVars, workflowVars, loaderVars>>

\* l.122-129 and l.288-295: the training data
RunTrain ==
    /\ gen_pc = "train"
    /\ \E outcome \in DemoOutcomes :
         LET r == run_ravens_demo(cwd, outcome)
         IN  /\ train_success' = r.success
             /\ cwd' = r.cwd
    /\ gen_pc' = "test"
    /\ UNCHANGED <<dataset_dir_exists, assets_path_exists, args_task,
                   loop_task, test_success, results, gen_exception,
                   gen_exit>>
    /\ UNCHANGED <<conversionVars, workflowVars, loaderVars>>

\* l.132-148 and l.250-283 for all tasks: the test data, the entry of the
\* task in results, and after the last task the return of results to main,
\* which exits with 0 when a task succeeded; l.298-309 for one task
RunTest ==
    /\ gen_pc = "test"
    /\ \E outcome \in DemoOutcomes :
         LET r == run_ravens_demo(cwd, outcome)
         IN  /\ test_success' = r.success
             /\ cwd' = r.cwd
             /\ IF args_task = "all"
                THEN /\ results' =
                          [t \in DOMAIN results \cup {GenTasks[loop_task]}
                             |-> IF t = GenTasks[loop_task]
                                 THEN train_success /\ r.success
                                 ELSE results[t]]
                     /\ IF loop_task < Len(GenTasks)
                        THEN /\ loop_task' = loop_task + 1
                             /\ gen_pc' = "task_dir"
                             /\ UNCHANGED gen_exit
                        ELSE /\ gen_exit' =
                                  IF \E t \in DOMAIN results' : results'[t]
                                  THEN 0 ELSE 1
                             /\ gen_pc' = "exited"
                             /\ UNCHANGED loop_task
                ELSE /\ gen_exit' = IF train_success /\ r.success
                                    THEN 0 ELSE 1
                     /\ gen_pc' = "exited"
                     /\ UNCHANGED <<results, loop_task>>
    /\ UNCHANGED <<dataset_dir_exists, assets_path_exists, args_task,
                   train_success, gen_exception>>
    /\ UNCHANGED <<conversionVars, workflowVars, loaderVars>>

NextGen ==
    \/ MainMissingDirectory
    \/ MainDispatch
    \/ TaskDataDir
    \/ RunTrain
    \/ RunTest

SpecGen == InitGen /\ [][NextGen]_vars


\* ======================================================================
\* example_workflow.py
\* ======================================================================
\* the descriptions of the run_command calls of main, in the order of the
\* calls (l.53-99)
WorkflowCommands ==
    << "Generate synthetic data for block-insertion task",
       "Convert training data to Isaac GR00T format",
       "Convert test data to Isaac GR00T format",
       "Validate converted training data",
       "Validate converted test data" >>

\* what subprocess.run returns (l.21): the exit status and whether anything
\* was captured from stdout and stderr
CommandResults ==
    [returncode : 0..MaxReturnCode, stdout : BOOLEAN, stderr : BOOLEAN]

\* a run_command that takes every status but 1 as a success
run_command_AllButOne(result) ==
    IF result.returncode # 1
    THEN [success |-> TRUE,
          printed |-> IF result.stdout THEN <<"SUCCESS", "Output">>
                      ELSE <<"SUCCESS">>]
    ELSE [success |-> FALSE,
          printed |-> IF result.stderr THEN <<"FAILED", "Error">>
                      ELSE <<"FAILED">>]

\* run_command (l.14-32): the value returned and the lines printed
run_command(result) ==
    IF result.returncode = 0
    THEN [success |-> TRUE,
          printed |-> IF result.stdout THEN <<"SUCCESS", "Output">>
                      ELSE <<"SUCCESS">>]
    ELSE [success |-> FALSE,
          printed |-> IF result.stderr THEN <<"FAILED", "Error">>
                      ELSE <<"FAILED">>]

InitFlow ==
    /\ ravens_data_dir = {}
    /\ action_dir_exists = FALSE
    /\ action_files = {}
    /\ store = [id \in EpisodeIdSet |-> EmptyEpisode]
    /\ pc = "idle"
    /\ task_name = "none"
    /\ episode_ids = <<>>
    /\ cursor = 0
    /\ episode_data = EmptyEpisode
    /\ global_index = 0
    /\ meta = NoFiles
    /\ meta_calls = 0
    /\ table_log = <<>>
    /\ videos = {}
    /\ video_result = "none"
    /\ video_failed = {}
    /\ ret = "none"
    /\ consistent = "none"
    /\ parquet_rows = <<>>
    /\ dataset_dir_exists \in BOOLEAN
    /\ assets_path_exists = TRUE
    /\ args_task = "block-insertion"
    /\ gen_pc = "idle"
    /\ cwd = "root"
    /\ loop_task = 0
    /\ train_success = FALSE
    /\ test_success = FALSE
    /\ results = <<>>
    /\ gen_exception = "none"
    /\ gen_exit = -1
    /\ wf_pc = "main"
    /\ wf_step = 0
    /\ wf_log = <<>>
    /\ wf_exit = -1
    /\ LoaderIdle

\* main, l.41-44: not in the project root
WorkflowMissingDirectory ==
    /\ wf_pc = "main"
    /\ ~dataset_dir_exists
    /\ wf_exit' = 1
    /\ wf_pc' = "returned"
    /\ UNCHANGED <<wf_step, wf_log>>
    /\ UNCHANGED <<conversionVars, generationVars, loaderVars>>

\* main, l.53-137: the next run_command call and the test of its result;
\* a failure returns 1, the success of the last command returns 0
RunCommand ==
    /\ wf_pc = "main"
    /\ dataset_dir_exists
    /\ wf_step < Len(WorkflowCommands)
    /\ \E result \in CommandResults :
         LET r == run_command(result)
         IN  /\ wf_log' = Append(wf_log,
                                 [cmd |-> WorkflowCommands[wf_step + 1],
                                  returncode |-> result.returncode,
                                  printed |-> r.printed])
             /\ wf_step' = wf_step + 1
             /\ IF ~r.success
                THEN wf_exit' = 1 /\ wf_pc' = "returned"
                ELSE IF wf_step + 1 = Len(WorkflowCommands)
                     THEN wf_exit' = 0 /\ wf_pc' = "returned"
                     ELSE UNCHANGED <<wf_exit, wf_pc>>
    /\ UNCHANGED <<conversionVars, generationVars, loaderVars>>

NextFlow ==
    \/ WorkflowMissingDirectory
    \/ RunCommand

SpecFlow == InitFlow /\ [][NextFlow]_vars


\* ======================================================================
\* discovery of the episode ids and loading of the episodes, by file name
\* ======================================================================
\* A stem is the sequence of the '-'-separated fields of the file name
\* without ".pkl", a field the sequence of its characters: 0..9 are the
\* digits, 10 is a letter.

\* int(field) for a field of digits (l.257)
RECURSIVE IntOf(_)
IntOf(chars) ==
    IF chars = <<>> THEN 0
    ELSE 10 * IntOf(SubSeq(chars, 1, Len(chars) - 1)) + chars[Len(chars)]

\* '-' in filename and int(filename.split('-')[1]) (l.255-257)
NameHasDash(stem) == Len(stem) > 1
ParseNamedId(stem) == IntOf(stem[2])

RECURSIVE ParsedNamedIds(_)
ParsedNamedIds(files) ==
    IF files = <<>> THEN <<>>
    ELSE IF NameHasDash(Head(files))
         THEN <<ParseNamedId(Head(files))>> \o ParsedNamedIds(Tail(files))
         ELSE ParsedNamedIds(Tail(files))

\* whether chars holds pattern as a run of consecutive characters
Contains(chars, pattern) ==
    \E o \in 1..(Len(chars) - Len(pattern) + 1) :
        SubSeq(chars, o, o + Len(pattern) - 1) = pattern

\* whether the file matches f"*{episode_id:06d}*.pkl" (l.71): the pattern
\* holds digits only, so it is found inside one field of the stem
GlobMatches(stem, episode_id) ==
    \E f \in 1..Len(stem) : Contains(stem[f], ZeroPad(episode_id, 6))

\* the file names considered: "<episode:06d>-<seed>" as the Ravens
\* recorder names its files, "e-<id:06d>", "e-<id>" and a name without '-'
NamedStems ==
    { <<ZeroPad(0, 6), Digits(0)>>,
      <<ZeroPad(0, 6), Digits(1)>>,
      <<ZeroPad(1, 6), Digits(MaxId)>>,
      <<<<10>>, ZeroPad(1, 6)>>,
      <<<<10>>, ZeroPad(MaxId, 6)>>,
      <<<<10>>, Digits(MaxId)>>,
      <<ZeroPad(MaxId, 6)>> }

NamedDirectories == {d \in SUBSET NamedStems : Cardinality(d) <= MaxFiles}

InitLoad ==
    /\ ravens_data_dir = {}
    /\ action_dir_exists = TRUE
    /\ action_files = {}
    /\ store = [id \in EpisodeIdSet |-> EmptyEpisode]
    /\ pc = "discover"
    /\ task_name = "none"
    /\ episode_ids = <<>>
    /\ cursor = 0
    /\ episode_data = EmptyEpisode
    /\ global_index = 0
    /\ meta = NoFiles
    /\ meta_calls = 0
    /\ table_log = <<>>
    /\ videos = {}
    /\ video_result = "none"
    /\ video_failed = {}
    /\ ret = "none"
    /\ consistent = "none"
    /\ parquet_rows = <<>>
    /\ GenerationIdle
    /\ WorkflowIdle
    /\ named_files \in NamedDirectories
    /\ loaded = <<>>

\* convert_dataset, l.250-267: the ids are parsed from the names of the
\* action files, in the order of the glob, and sorted
DiscoverNamed ==
    /\ pc = "discover"
    /\ \E episode_files \in GlobOrders(named_files) :
         episode_ids' = SortAscending(ParsedNamedIds(episode_files))
    /\ cursor' = 1
    /\ pc' = "load"
    /\ UNCHANGED <<ravens_data_dir, action_dir_exists, action_files, store,
                   task_name, episode_data, global_index, meta, meta_calls,
                   table_log, videos, video_result, video_failed, ret,
                   consistent, parquet_rows>>
    /\ UNCHANGED <<generationVars, workflowVars, loaderVars>>

\* l.268-269 and load_ravens_episode, l.70-73: no action file matches the
\* id, the action modality is not loaded
LoadNoFile ==
    /\ pc = "load"
    /\ cursor <= Len(episode_ids)
    /\ \A f \in named_files : ~GlobMatches(f, episode_ids[cursor])
    /\ loaded' = Append(loaded, [episode_id |-> episode_ids[cursor],
                                 found |-> FALSE, file |-> <<>>])
    /\ cursor' = cursor + 1
    /\ UNCHANGED <<ravens_data_dir, action_dir_exists, action_files, store,
                   pc, task_name, episode_ids, episode_data, global_index,
                   meta, meta_calls, table_log, videos, video_result,
                   video_failed, ret, consistent, parquet_rows>>
    /\ UNCHANGED <<generationVars, workflowVars, named_files>>

\* l.268-269 and load_ravens_episode, l.70-77: files[0] is loaded, the
\* first of the matching files in the order of the glob
LoadFile ==
    /\ pc = "load"
    /\ cursor <= Len(episode_ids)
    /\ \E f \in named_files :
         /\ GlobMatches(f, episode_ids[cursor])
         /\ loaded' = Append(loaded, [episode_id |-> episode_ids[cursor],
                                      found |-> TRUE, file |-> f])
    /\ cursor' = cursor + 1
    /\ UNCHANGED <<ravens_data_dir, action_dir_exists, action_files, store,
                   pc, task_name, episode_ids, episode_data, global_index,
                   meta, meta_calls, table_log, videos, video_result,
                   video_failed, ret, consistent, parquet_rows>>
    /\ UNCHANGED <<generationVars, workflowVars, named_files>>

NextLoad ==
    \/ DiscoverNamed
    \/ LoadNoFile
    \/ LoadFile

SpecLoad == InitLoad /\ [][NextLoad]_vars


\* ======================================================================
\* Properties of a conversion run
\* ======================================================================
Converted == pc \in {"done", "validated"} /\ ret = TRUE

\* the action array of the episode record of an id ([] when absent)
SourceAction(id) ==
    IF "action" \in store[id].has THEN store[id].action ELSE <<>>

RECURSIVE ConcatRows(_)
ConcatRows(log) ==
    IF log = <<>> THEN <<>> ELSE Head(log).rows \o ConcatRows(Tail(log))

\* every row written, in episode-processing order and then step order
AllRows == ConcatRows(table_log)

RowCounts == [i \in 1..Len(table_log) |-> Len(table_log[i].rows)]

\* the rows written to the table file of an id (none without a file)
RowsWritten(id) == IF id \in DOMAIN tables THEN Len(tables[id]) ELSE 0

Catalog == meta["episodes.jsonl"]

\* C1: every table that convert_dataset persists has as many rows as the
\* action array of its episode record has entries, and no row when the
\* action array is empty or the action modality is absent.
C1_RowCountIsActionLength ==
    \A i \in 1..Len(table_log) :
        LET id == table_log[i].episode_id
        IN  /\ Len(table_log[i].rows) = Len(SourceAction(id))
            /\ ("action" \notin store[id].has \/ store[id].action = <<>>)
                   => table_log[i].rows = <<>>

\* a table of two or more rows and an empty table of an episode without
\* action modality have both been persisted
C1_Witness ==
    /\ \E i \in 1..Len(table_log) : Len(table_log[i].rows) >= 2
    /\ \E i \in 1..Len(table_log) :
          /\ "action" \notin store[table_log[i].episode_id].has
          /\ table_log[i].rows = <<>>

\* C2: in the rows built for a non-empty episode of length L, next.done is
\* true on the row of step L-1 and on no other row.
C2_DoneExactlyOnLastRow ==
    \A i \in 1..Len(table_log) :
        LET rows == table_log[i].rows
        IN  \A k \in 1..Len(rows) : rows[k].next_done <=> (k = Len(rows))

\* a one-row table (its row terminal) and a longer table were built
C2_Witness ==
    /\ \E i \in 1..Len(table_log) :
          Len(table_log[i].rows) = 1 /\ table_log[i].rows[1].next_done
    /\ \E i \in 1..Len(table_log) :
          Len(table_log[i].rows) >= 2 /\ ~table_log[i].rows[1].next_done

\* C3: the index values of all rows written, in episode-processing order
\* and then step order, are 0, 1, ..., N-1; the first index of each table
\* continues where the table written before it ended.
C3_GlobalIndexContiguous ==
    /\ \A k \in 1..Len(AllRows) : AllRows[k].index = k - 1
    /\ \A i \in 1..Len(table_log) :
          table_log[i].rows # <<>> =>
              table_log[i].rows[1].index = SumSeq(SubSeq(RowCounts, 1, i - 1))

\* two non-empty tables were written around an episode that was skipped or
\* produced no row
C3_Witness ==
    /\ Converted
    /\ \E a, b, c \in 1..Len(episode_ids) :
          /\ a < b /\ b < c
          /\ SourceAction(episode_ids[a]) # <<>>
          /\ SourceAction(episode_ids[b]) = <<>>
          /\ SourceAction(episode_ids[c]) # <<>>
    /\ Len(AllRows) >= 3

\* C4: in the metadata written, total_frames is the sum of the lengths of
\* the episode catalog and total_episodes is the number of its entries.
C4_InfoMatchesCatalog ==
    meta # NoFiles =>
        /\ meta["info.json"].total_frames =
               SumSeq([i \in 1..Len(Catalog) |-> Catalog[i].length])
        /\ meta["info.json"].total_episodes = Len(Catalog)

\* metadata of three entries, one id twice, with frames
C4_Witness ==
    /\ meta # NoFiles
    /\ Len(Catalog) = 3
    /\ Catalog[1].episode_index = Catalog[2].episode_index
    /\ meta["info.json"].total_frames >= 3

\* C5: after a conversion, the length each catalog entry declares is the
\* number of rows written to the table file of that episode id.
C5_CatalogLengthIsRowsWritten ==
    Converted =>
        \A i \in 1..Len(Catalog) :
            Catalog[i].length = RowsWritten(Catalog[i].episode_index)

\* a conversion with an entry of two or more rows whose table exists and
\* whose episode has no reward modality
C5_Witness ==
    /\ Converted
    /\ \E i \in 1..Len(Catalog) :
          /\ Catalog[i].length >= 2
          /\ Catalog[i].episode_index \in DOMAIN tables
          /\ "reward" \notin store[Catalog[i].episode_index].has

\* C6: after a conversion, total_frames is the sum of the row counts of
\* the tables the loop wrote, which is the final global_index.
C6_TotalFramesIsRowsWritten ==
    Converted =>
        /\ meta["info.json"].total_frames = SumSeq(RowCounts)
        /\ meta["info.json"].total_frames = global_index

\* a conversion that wrote the table of one id twice
C6_Witness ==
    /\ Converted
    /\ global_index >= 2
    /\ \E i, j \in 1..Len(table_log) :
          i < j /\ table_log[i].episode_id = table_log[j].episode_id

\* C7: an empty episode is excluded from the catalogs and counts, and no
\* table or clip is written for it.
C7_EmptyEpisodeExcluded ==
    Converted =>
        /\ \A id \in Range(episode_ids) :
              SourceAction(id) = <<>> =>
                  /\ \A i \in 1..Len(Catalog) : Catalog[i].episode_index # id
                  /\ id \notin DOMAIN tables
                  /\ VideoFileName(id) \notin videos
        /\ meta["info.json"].total_episodes =
               Cardinality({i \in 1..Len(episode_ids) :
                               SourceAction(episode_ids[i]) # <<>>})

\* C8: after a conversion there are as many catalog entries as table files
\* and as clip files.
C8_CatalogTablesClipsOneToOne ==
    Converted =>
        /\ Len(Catalog) = Cardinality(DOMAIN tables)
        /\ Len(Catalog) = Cardinality(videos)

\* C9: when no episode is discoverable, convert_dataset returns False and
\* writes no metadata.
C9_NoEpisodeAborts ==
    (pc \in {"done", "validated"} /\ episode_ids = <<>>) =>
        (ret = FALSE /\ meta = NoFiles)

\* C10: create_metadata_files is invoked exactly once, and no metadata file
\* is written before every discovered episode has been processed.
C10_MetadataAfterAllEpisodes ==
    /\ meta # NoFiles => cursor > Len(episode_ids)
    /\ meta_calls <= 1
    /\ Converted => meta_calls = 1

\* the positions of table_log written for loop position p
LogOf(p) == {i \in 1..Len(table_log) : table_log[i].pos = p}

\* C11: a failed clip encoding is caught and returned as False; the table
\* of that episode is still written with all its rows, the global index
\* advances by the rows of every table written, every later episode is
\* processed, and convert_dataset returns True.
C11_VideoFailureDoesNotStopConversion ==
    /\ pc # "raised"
    /\ \A p \in video_failed :
          /\ (pc = "parquet" /\ cursor = p) => video_result = FALSE
          /\ p < cursor =>
                \E i \in LogOf(p) :
                    /\ table_log[i].episode_id = episode_ids[p]
                    /\ Len(table_log[i].rows) =
                           Len(SourceAction(episode_ids[p]))
          /\ pc \in {"done", "validated"} =>
                /\ ret = TRUE
                /\ \A q \in (p + 1)..Len(episode_ids) :
                      store[episode_ids[q]].has # {} => LogOf(q) # {}
    /\ (video_failed # {} /\ pc \in {"loop", "video"}) =>
          global_index = SumSeq(RowCounts)
    /\ (video_failed # {} /\ pc \notin {"done", "validated"}) =>
          ENABLED Next

\* a conversion returned True after an encoding failed for an episode whose
\* rows were written and after which a later episode's rows were written
C11_Witness ==
    /\ Converted
    /\ \E p \in video_failed :
          /\ \E i \in LogOf(p) : Len(table_log[i].rows) >= 2
          /\ \E q \in (p + 1)..Len(episode_ids) :
                \E j \in LogOf(q) : Len(table_log[j].rows) >= 1
    /\ global_index >= 3

\* C12: whenever the encoding failed for at least one episode of a
\* conversion, validate_episode_consistency returns False on its output.
C12_VideoFailureIsReportedAsMismatch ==
    (pc = "validated" /\ video_failed # {}) => consistent = FALSE


\* C16: the task id on every row (task_index and
\* annotation.human.action.task_description) and in every episode catalog
\* entry is one value: the 0-based position of the task name among the ten
\* known names, or 0 for any other name; the task catalog has an entry
\* with that index.
C16_OneTaskIdEverywhere ==
    LET known == {i \in 1..10 : TaskKeys[i] = task_name}
        id == IF known = {} THEN 0 ELSE (CHOOSE i \in known : TRUE) - 1
    IN  /\ \A k \in 1..Len(AllRows) :
              /\ AllRows[k].task_index = id
              /\ AllRows[k].task_description = id
        /\ meta # NoFiles =>
              /\ \A i \in 1..Len(Catalog) : Catalog[i].tasks = <<id>>
              /\ Len(meta["tasks.jsonl"]) = 10
              /\ \E i \in 1..Len(meta["tasks.jsonl"]) :
                    meta["tasks.jsonl"][i].task_index = id

\* a conversion of a towers-of-hanoi directory wrote rows and a catalog
\* entry with the task id 2
C16_Witness ==
    /\ Converted
    /\ task_name = "towers-of-hanoi"
    /\ \E k \in 1..Len(AllRows) : AllRows[k].task_index = 2
    /\ \E i \in 1..Len(Catalog) : Catalog[i].tasks = <<2>>

\* the number written by a sequence of decimal digits
RECURSIVE FromDigits(_)
FromDigits(d) ==
    IF d = <<>> THEN 0
    ELSE 10 * FromDigits(SubSeq(d, 1, Len(d) - 1)) + d[Len(d)]

\* C18: the rows of the episodes are built in ascending order of episode
\* id, the episode catalog lists the ids in the same ascending order, the
\* table and the clip of an episode are both named by its id padded with
\* zeros to six digits, and every row of a table carries that id as
\* episode_index.
C18_AscendingIdOrderEverywhere ==
    /\ \A i, j \in 1..Len(table_log) :
          i < j => /\ table_log[i].episode_id <= table_log[j].episode_id
                   /\ table_log[i].pos < table_log[j].pos
    /\ \A i \in 1..Len(table_log) :
          LET e == table_log[i]
          IN  /\ e.episode_id = episode_ids[e.pos]
              /\ e.file[1] = "episode_" /\ e.file[3] = ".parquet"
              /\ Len(e.file[2]) = 6 /\ FromDigits(e.file[2]) = e.episode_id
              /\ \A k \in 1..Len(e.rows) :
                    e.rows[k].episode_index = e.episode_id
    /\ \A v \in videos :
          /\ v[1] = "episode_" /\ v[3] = ".mp4" /\ Len(v[2]) = 6
          /\ \E p \in 1..Len(episode_ids) :
                p <= cursor /\ FromDigits(v[2]) = episode_ids[p]
          /\ Converted =>
                \E i \in 1..Len(table_log) : table_log[i].file[2] = v[2]
    /\ meta # NoFiles =>
          /\ Len(Catalog) = Len(episode_ids)
          /\ \A i \in 1..Len(Catalog) :
                Catalog[i].episode_index = episode_ids[i]
          /\ \A i, j \in 1..Len(Catalog) :
                i < j => Catalog[i].episode_index <= Catalog[j].episode_index

\* a conversion wrote the tables of two different ids, the second with
\* rows and a clip
C18_Witness ==
    /\ Converted
    /\ \E i, j \in 1..Len(table_log) :
          /\ i < j
          /\ table_log[i].episode_id < table_log[j].episode_id
          /\ table_log[j].rows # <<>>
          /\ VideoFileName(table_log[j].episode_id) \in videos


\* ======================================================================
\* Properties of a create_parquet_data call
\* ======================================================================
Built == pc = "built"

\* the elements of one action entry and the info entries of a step (none
\* when the info array has no such index or the entry is not a dict)
ActionItems(step) ==
    IF episode_data.action[step + 1].kind \in {"list", "ndarray"}
    THEN episode_data.action[step + 1].items
    ELSE <<episode_data.action[step + 1].items[1]>>

RewardAt(step) ==
    IF "reward" \in episode_data.has /\ step < Len(episode_data.reward)
    THEN <<episode_data.reward[step + 1]>>
    ELSE <<>>

InfoAt(step) ==
    IF /\ "info" \in episode_data.has
       /\ step < Len(episode_data.info)
       /\ episode_data.info[step + 1].isdict
    THEN episode_data.info[step + 1].entries
    ELSE <<>>

\* what follows the action and reward parts in observation.state
InfoPart(k) ==
    SubSeq(parquet_rows[k].state,
           Len(ActionItems(k - 1)) + Len(RewardAt(k - 1)) + 1,
           Len(parquet_rows[k].state))

AllNumeric(items) == \A j \in 1..Len(items) : items[j].t = "num"

\* the contribution the claim C13 gives to one info value
ClaimedContribution(value) ==
    IF value.kind \in {"int", "float", "bool", "np.float32", "np.float64"}
    THEN <<value.items[1]>>
    ELSE IF /\ value.kind \in {"list", "ndarray"}
            /\ AllNumeric(value.items)
            /\ Len(value.items) <= 10
         THEN value.items
    ELSE <<>>

RECURSIVE ClaimedInfoPart(_)
ClaimedInfoPart(entries) ==
    IF entries = <<>> THEN <<>>
    ELSE ClaimedContribution(Head(entries).value)
             \o ClaimedInfoPart(Tail(entries))

\* C13: every value of a step's info mapping contributes to
\* observation.state as follows: a numeric scalar is appended, a numeric
\* list or array of at most 10 elements is appended element by element,
\* and every other value contributes nothing and raises no error, the rest
\* of the step being retained.
C13_InfoValuesByTypeAndLength ==
    /\ pc # "build_raised"
    /\ Built =>
          \A k \in 1..Len(parquet_rows) :
              /\ InfoPart(k) = ClaimedInfoPart(InfoAt(k - 1))
              /\ SubSeq(parquet_rows[k].state, 1, Len(ActionItems(k - 1)))
                     = ActionItems(k - 1)

\* the concatenations in order of a choice of whole values among entries
RECURSIVE KeptInOrder(_)
KeptInOrder(entries) ==
    IF entries = <<>> THEN {<<>>}
    ELSE LET rest == KeptInOrder(Tail(entries))
         IN  rest \cup {Head(entries).value.items \o r : r \in rest}

\* C14: observation.state of step i is, in this order, the components of
\* action[i] (a scalar as one element), reward[i] if the reward array has
\* index i, and the retained values of info[i] in the iteration order of
\* the mapping.
C14_StateIsActionRewardInfo ==
    Built =>
        \A k \in 1..Len(parquet_rows) :
            LET st == parquet_rows[k].state
                a == ActionItems(k - 1)
                r == RewardAt(k - 1)
            IN  /\ Len(st) >= Len(a) + Len(r)
                /\ SubSeq(st, 1, Len(a)) = a
                /\ SubSeq(st, Len(a) + 1, Len(a) + Len(r)) = r
                /\ InfoPart(k) \in KeptInOrder(InfoAt(k - 1))

\* rows were built from action = [[1, 2], [2, 3]], reward = [10, 20] and
\* info = [{x: 101}, {n: 102}]: row 0 has the state [1, 2, 10, 101]
C14_Witness ==
    /\ Built
    /\ Len(parquet_rows) = 2
    /\ parquet_rows[1].state = <<Num(1), Num(2), Num(10), Num(101)>>
    /\ parquet_rows[2].state = <<Num(2), Num(3), Num(20), Num(102)>>

\* C15: on the row of step i of an episode of length L, next.reward is
\* reward[i+1] when i < L-1 and the reward array has index i+1, 0 when
\* i < L-1 and it has not (absent or too short), and 0 when i = L-1.
C15_NextRewardLooksAhead ==
    Built =>
        LET L == Len(episode_data.action)
            reward == IF "reward" \in episode_data.has
                      THEN episode_data.reward ELSE <<>>
        IN  \A k \in 1..Len(parquet_rows) :
                /\ (k - 1 < L - 1 /\ k < Len(reward)) =>
                       parquet_rows[k].next_reward = reward[k + 1]
                /\ (k - 1 < L - 1 /\ ~(k < Len(reward))) =>
                       parquet_rows[k].next_reward = Num(0)
                /\ k - 1 = L - 1 => parquet_rows[k].next_reward = Num(0)

\* rows of an episode whose reward array is one longer than the action
\* array: the first row looks ahead, the last has 0
C15_Witness ==
    /\ Built
    /\ Len(parquet_rows) >= 2
    /\ Len(episode_data.reward) = Len(episode_data.action) + 1
    /\ parquet_rows[1].next_reward = Num(20)
    /\ parquet_rows[Len(parquet_rows)].next_reward = Num(0)

\* the values of the record that a state vector of step may hold
SourceValues(step) ==
    Range(ActionItems(step)) \cup Range(RewardAt(step))
    \cup UNION { Range(InfoAt(step)[j].value.items) :
                    j \in 1..Len(InfoAt(step)) }

\* C17: for a record with an action array of length L and any subset of
\* the other modalities (reward or info shorter than L, info entries that
\* are not mappings), create_parquet_data does not raise because of what
\* is missing and returns L rows whose observation.state omits the missing
\* values and holds no value that is not in the record.
C17_MissingModalitiesAreOmitted ==
    /\ pc = "build_raised" =>
          \E step \in 0..(Len(episode_data.action) - 1) :
              \E j \in 1..Len(InfoAt(step)) :
                  InfoAt(step)[j].value.kind = "ndarray0d"
    /\ (pc = "build" /\ \A step \in 0..(Len(episode_data.action) - 1) :
                           \A j \in 1..Len(InfoAt(step)) :
                               InfoAt(step)[j].value.kind # "ndarray0d")
          => ENABLED BuildRows
    /\ Built =>
          /\ Len(parquet_rows) = Len(episode_data.action)
          /\ \A k \in 1..Len(parquet_rows) :
                LET st == parquet_rows[k].state
                IN  /\ Range(st) \subseteq SourceValues(k - 1)
                    /\ RewardAt(k - 1) = <<>> /\ InfoAt(k - 1) = <<>>
                          => st = ActionItems(k - 1)
                    /\ InfoAt(k - 1) = <<>>
                          => st = ActionItems(k - 1) \o RewardAt(k - 1)

\* rows of a record without reward whose info array is shorter than the
\* action array and starts with an entry that is not a mapping
C17_Witness ==
    /\ Built
    /\ Len(parquet_rows) = MaxLen
    /\ "reward" \notin episode_data.has
    /\ "info" \in episode_data.has
    /\ Len(episode_data.info) = 1
    /\ ~episode_data.info[1].isdict
    /\ \A k \in 1..Len(parquet_rows) :
          parquet_rows[k].state = ActionItems(k - 1)


\* ======================================================================
\* Properties of the generation driver
\* ======================================================================
\* C19: generate_all_tasks terminates normally and returns a dictionary
\* with one entry for each of the ten tasks, each true exactly when the
\* train and the test generation of that task both succeeded.
C19_AllTasksReturnsTenResults ==
    /\ gen_exception = "none"
    /\ (gen_pc = "task_dir" /\ loop_task > 1) =>
          results[GenTasks[loop_task - 1]] =
              (train_success /\ test_success)
    /\ (args_task = "all" /\ dataset_dir_exists /\ assets_path_exists
           /\ gen_pc \notin {"main", "task_dir", "train", "test"}) =>
          /\ gen_pc = "exited"
          /\ DOMAIN results = Range(GenTasks)
          /\ Cardinality(DOMAIN results) = 10


\* C21: run_ravens_demo leaves the working directory of the process
\* unchanged on every return path (success, non-zero exit status, timeout,
\* any other exception): after each call the process is in the directory
\* it was started in, and so is the call made after a failed call.
C21_WorkingDirectoryUnchanged == cwd = "root"


\* ======================================================================
\* Properties of the example workflow
\* ======================================================================
\* C20: the workflow runs generate data, convert train, convert test,
\* validate train and validate test in this order; at the first command
\* that fails it returns 1 and runs no later command, and it returns 0
\* only when all five commands succeeded.
C20_WorkflowStopsAtFirstFailure ==
    /\ Len(wf_log) <= 5
    /\ \A i \in 1..Len(wf_log) :
          /\ wf_log[i].cmd =
                 << "Generate synthetic data for block-insertion task",
                    "Convert training data to Isaac GR00T format",
                    "Convert test data to Isaac GR00T format",
                    "Validate converted training data",
                    "Validate converted test data" >>[i]
          /\ i < Len(wf_log) => wf_log[i].returncode = 0
          /\ wf_log[i].returncode # 0 =>
                wf_pc = "returned" /\ wf_exit = 1
    /\ wf_exit = 0 =>
          /\ Len(wf_log) = 5
          /\ \A i \in 1..5 : wf_log[i].returncode = 0
    /\ (wf_pc = "returned" /\ dataset_dir_exists /\ wf_exit # 0) =>
          wf_log[Len(wf_log)].returncode # 0

\* the workflow returned 1 after its third command failed with status 2
C20_Witness ==
    /\ wf_pc = "returned"
    /\ wf_exit = 1
    /\ Len(wf_log) = 3
    /\ wf_log[3].cmd = "Convert test data to Isaac GR00T format"
    /\ wf_log[3].returncode = 2


\* ======================================================================
\* Properties of the loading by file name
\* ======================================================================
\* C22: every episode id that convert_dataset parses from the name of an
\* action file is loaded by load_ravens_episode from an action file that
\* the id was parsed from: the match on the zero-padded id never selects
\* no file and never the file of another episode.
C22_DiscoveredIdLoadsItsOwnFile ==
    \A i \in 1..Len(loaded) :
        /\ loaded[i].found
        /\ loaded[i].file \in named_files
        /\ NameHasDash(loaded[i].file)
        /\ ParseNamedId(loaded[i].file) = loaded[i].episode_id

====
